---- MODULE Spec2Model ----
(***************************************************************************)
(* Robotic telescope mount: the per-axis motor threads, the shortest-path  *)
(* azimuth delta and the Sun tracking widgets, as they are written in the  *)
(* telescope_3 .. telescope_8 variants of the repository.                  *)
(*                                                                         *)
(* Angles are held in hundredths of a degree (90.0 deg = 9000), so that    *)
(* every step size the code can take (0.01 deg .. 0.5 deg per tick) is an  *)
(* integer; arithmetic is exact, the rounding of the binary floats of the  *)
(* Python code is not modelled.  A speed is held as the distance one tick  *)
(* moves the axis, in the same unit.                                       *)
(*                                                                         *)
(* Of the widgets' display handlers only update_altitude_display of        *)
(* telescope_7 is modelled, and only the specification of the altitude     *)
(* axis with its display runs it; GPIO pin configuration and status texts  *)
(* are outside the model.  Of the camera only the recording flag is kept,  *)
(* of the exception paths only that of the telescope_7 altitude loop and   *)
(* that of the telescope_7 log writer.  Observer coordinates are held in   *)
(* whole degrees, the Moon's illumination in whole percent.  The log queue *)
(* of telescope_7 is followed up to MaxEvents appends; the specifications  *)
(* that are not about the log start with that many entries queued.         *)
(***************************************************************************)
EXTENDS Integers, Sequences, FiniteSets, TLC

VARIABLES
    altVer,       \* which AltitudeMotorThread is running: "t7" or "t5"
    alt_current,  \* self.current_alt
    alt_target,   \* self.target_alt
    alt_speed,    \* self.speed, as the step of one tick
    alt_running,  \* self.running
    alt_motor,    \* actuator output: "none" (no Motor object), "stop", "fwd", "bwd"
    alt_pc,       \* position of the run() thread
    alt_ltgt,     \* telescope_7 run(): the local target (the local current equals
                  \* self.current_alt, which only run() writes)
    alt_slider,   \* telescope_7: alt_slider.value()
    alt_errs,     \* history: drive attempts in a row that raised an exception
    alt_emit,     \* the position_signal emission that the GUI thread has not
                  \* handled yet, the latest if there are several; <<>> if
                  \* none
    azVer,        \* which azimuth thread is running: "t7" or "t8"
    az_current,   \* self.current_az / self.current_position
    az_target,    \* self.target_az / self.target_position
    az_speed,     \* self.speed: telescope_7 the step of one tick, telescope_8 percent
    az_running,   \* self.running
    az_motor,     \* actuator output: "none", "stop", "fwd" (right), "bwd" (left)
    az_pc,        \* position of the run() thread
    az_ltgt,      \* telescope_7 run(): local target
    az_slider,    \* az_slider.value() / position_slider.value()
    az_moves,     \* number of manual left/right steps taken so far
    az_halted,    \* history: telescope_8 stop_motors() ran and no target was
                  \* set since
    az_mutex,     \* telescope_8: who holds self.mutex, "free" or "gui"
    gui,          \* the GUI thread: "idle", or blocked in QThread.wait()
    sunVer,       \* which Sun widget is running: "t3", "t6", "t7" or "t8"
    filter_checked, \* the solar-filter confirmation (telescope_8 has none)
    auto_track,   \* the Sun thread's flag: auto_track / tracking
    auto_btn,     \* auto_track_btn.isChecked() (telescope_6, telescope_7)
    sun_pc,       \* position of the Sun thread's run()
    sun_queue,    \* position_signal emissions queued to the GUI thread
    sun_warned,   \* the last Sun command was answered with the safety
                  \* warning box and nothing else
    moon_track,   \* telescope_7: the Moon thread's auto_track flag
    recording,    \* telescope_7: camera_thread.recording
    obs_lat,      \* the Sun thread's observer latitude, in whole degrees
    obs_lon,      \* the Sun thread's observer longitude, in whole degrees
    calc_lat,     \* telescope_7 calculate_sun_position(): observer.lat
    calc_lon,     \* telescope_7 calculate_sun_position(): observer.lon
    calc_seen,    \* history: the locations stored since the calculation in
                  \* progress took its latitude
    moon_pc,      \* telescope_7: position of the Moon thread's run()
    moon_queue,   \* telescope_7: the Moon thread's position_signal
                  \* emissions queued to the GUI thread
    d_current,    \* shortest-path delta: the current azimuth given
    d_target,     \* shortest-path delta: the target azimuth given
    d_diff,       \* shortest-path delta: the result
    d_pc,         \* shortest-path delta: "ready" or "done"
    db_conn,      \* telescope_7 DatabaseThread: self.db_conn, "open", "none"
                  \* (connect failed) or "closed"
    db_running,   \* DatabaseThread: self.running
    db_lock,      \* DatabaseThread: who holds self.lock, "free", "db" or "gui"
    db_pc,        \* DatabaseThread: position of run()
    db_queue,     \* DatabaseThread: self.operation_queue
    db_cur,       \* DatabaseThread run(): the operation popped, <<>> if none
    db_log,       \* rows of telescope_logs, in the order of their INSERT
    db_count,     \* number of appends to operation_queue followed so far
    db_pend,      \* the event of a set_operation call that waits for the lock
    phVer,        \* Moon phase name: the variant, "telescope" or "telescope_7"
    ph_illum,     \* Moon phase name: the illuminated fraction, in percent
    ph_waxing,    \* Moon phase name: whether the Moon is waxing; no variant
                  \* hands it to the naming code
    ph_name,      \* Moon phase name: the result
    ph_pc         \* Moon phase name: "ready" or "done"

altVars == <<altVer, alt_current, alt_target, alt_speed, alt_running,
             alt_motor, alt_pc, alt_ltgt, alt_slider, alt_errs, alt_emit>>

azVars == <<azVer, az_current, az_target, az_speed, az_running, az_motor,
            az_pc, az_ltgt, az_slider, az_moves, az_halted, az_mutex>>

sunVars == <<sunVer, filter_checked, auto_track, auto_btn, sun_pc, sun_queue,
             sun_warned, moon_track, recording, obs_lat, obs_lon, calc_lat,
             calc_lon, calc_seen, moon_pc, moon_queue>>

deltaVars == <<d_current, d_target, d_diff, d_pc>>

phaseVars == <<phVer, ph_illum, ph_waxing, ph_name, ph_pc>>

dbVars == <<db_conn, db_running, db_lock, db_pc, db_queue, db_cur, db_log,
            db_count, db_pend>>

vars == <<altVars, azVars, gui, sunVars, deltaVars, dbVars, phaseVars>>

\* What an altitude action, an azimuth action leaves alone
notAlt == <<azVars, sunVars, deltaVars, dbVars, phaseVars>>

notAz == <<altVars, sunVars, deltaVars, dbVars, phaseVars>>

----------------------------------------------------------------------------
(* Program constants                                                        *)

Tol == 10          \* 0.1 deg arrival tolerance
AltMin == 0        \* 0.0 deg
AltMax == 9000     \* 90.0 deg
Period == 36000    \* 360.0 deg
Half == 18000      \* 180 deg

T7SpeedMin == 1    \* 0.1 deg/s * 0.1 s
T7SpeedMax == 50   \* 5.0 deg/s * 0.1 s
T7SpeedInit == 10  \* 1.0 deg/s * 0.1 s
T5SpeedMin == 1    \* 0.1 * 0.1 deg
T5SpeedMax == 10   \* 1.0 * 0.1 deg
T5SpeedInit == 5   \* 0.5 * 0.1 deg
T8Step == 20       \* 0.2 deg per iteration
T8SpeedMin == 10   \* percent
T8SpeedMax == 100  \* percent
T8SpeedInit == 50  \* percent
ManualStep == 1000 \* 10 deg left/right step

----------------------------------------------------------------------------
(* AngleMath                                                                *)

Abs(x) == IF x < 0 THEN -x ELSE x

Max(a, b) == IF a >= b THEN a ELSE b

Min(a, b) == IF a <= b THEN a ELSE b

\* max(lo, min(hi, v))
Clamp(v, lo, hi) == Max(lo, Min(hi, v))

\* value % 360.0 (Python: the result is in [0, 360))
Wrap(v) == v % Period

\* int(v): truncation toward zero to a whole number of degrees
TruncDeg(v) == IF v >= 0 THEN (v \div 100) * 100 ELSE -(((-v) \div 100) * 100)

\* target - current alone, without the +/-360 correction
RawDiff(c, t) == t - c

\* diff = target - current; if abs(diff) > 180: diff -/+ 360
ShortestDiff(c, t) ==
    LET diff == t - c IN
      IF Abs(diff) > Half
        THEN (IF diff > 0 THEN diff - Period ELSE diff + Period)
        ELSE diff

----------------------------------------------------------------------------
(* Inputs of the altitude axis                                              *)

AltArgs == {-500, 20, 9500}

AltSpeedArgs == {10, 30, 70}

----------------------------------------------------------------------------
(* AltitudeMotorThread (telescope_7 and telescope_5)                        *)

AltInit ==
    /\ altVer \in {"t7", "t5"}
    /\ alt_current = 0
    /\ alt_target = 0
    /\ alt_speed = IF altVer = "t7" THEN T7SpeedInit ELSE T5SpeedInit
    /\ alt_running = (altVer = "t7")
    /\ alt_motor \in (IF altVer = "t7" THEN {"stop", "none"} ELSE {"stop"})
    /\ alt_pc = "start"
    /\ alt_ltgt = 0
    /\ alt_slider = 0
    /\ alt_errs = 0
    /\ alt_emit = <<>>

\* set_target(target): clamp to 0..90, target only
AltSetTarget(v) ==
    /\ gui = "idle"
    /\ alt_target' = Clamp(v, AltMin, AltMax)
    /\ UNCHANGED <<altVer, alt_emit, alt_errs, alt_current, alt_speed,
                   alt_running, alt_motor, alt_pc, alt_ltgt, alt_slider, gui,
                   notAlt>>

\* set_speed(speed): clamp to the variant's speed range
AltSetSpeed(s) ==
    /\ gui = "idle"
    /\ alt_speed' = IF altVer = "t7" THEN Clamp(s, T7SpeedMin, T7SpeedMax)
                                     ELSE Clamp(s, T5SpeedMin, T5SpeedMax)
    /\ UNCHANGED <<altVer, alt_emit, alt_errs, alt_current, alt_target,
                   alt_running, alt_motor, alt_pc, alt_ltgt, alt_slider, gui,
                   notAlt>>

\* run(), entry: telescope_7 returns at once without a Motor;
\* telescope_5 sets running
AltStart ==
    /\ alt_pc = "start"
    /\ IF altVer = "t7"
         THEN /\ alt_pc' = IF alt_motor = "none" THEN "exited" ELSE "top"
              /\ UNCHANGED alt_running
         ELSE /\ alt_pc' = "top"
              /\ alt_running' = TRUE
    /\ UNCHANGED <<altVer, alt_emit, alt_errs, alt_current, alt_target,
                   alt_speed, alt_motor, alt_ltgt, alt_slider, gui, notAlt>>

\* run(): while self.running
AltLoopTest ==
    /\ alt_pc = "top"
    /\ alt_pc' = IF ~alt_running THEN "exited"
                 ELSE IF altVer = "t7" THEN "read" ELSE "check"
    /\ UNCHANGED <<altVer, alt_emit, alt_errs, alt_current, alt_target,
                   alt_speed, alt_running, alt_motor, alt_ltgt, alt_slider,
                   gui, notAlt>>

\* telescope_7 run(): with self.lock: current, target = ...
AltRead ==
    /\ alt_pc = "read"
    /\ alt_ltgt' = alt_target
    /\ alt_pc' = "step"
    /\ UNCHANGED <<altVer, alt_emit, alt_errs, alt_current, alt_target,
                   alt_speed, alt_running, alt_motor, alt_slider, gui,
                   notAlt>>

\* telescope_7 run(): the rest of one iteration, on the local diff.
\* The locals are dead afterwards and are cleared.
AltStep ==
    /\ alt_pc = "step"
    /\ LET diff == alt_ltgt - alt_current IN
         IF Abs(diff) < Tol
           THEN /\ alt_motor' = "stop"
                /\ UNCHANGED <<alt_current, alt_emit>>
           ELSE /\ IF diff > 0
                     THEN /\ alt_motor' = "fwd"
                          /\ alt_current' =
                               Clamp(alt_current + alt_speed, AltMin, AltMax)
                     ELSE /\ alt_motor' = "bwd"
                          /\ alt_current' =
                               Clamp(alt_current - alt_speed, AltMin, AltMax)
                /\ alt_emit' = <<alt_current'>>
    /\ alt_pc' = "top"
    /\ alt_ltgt' = 0
    /\ alt_errs' = 0
    /\ UNCHANGED <<altVer, alt_target, alt_speed, alt_running, alt_slider,
                   gui, notAlt>>

\* Failed drive attempts in a row the model counts: at most MaxErrs
MaxErrs == 3

\* telescope_7 run(): motor.forward()/backward() raises inside the try.
\* The position is not updated; the handler emits error_signal and calls
\* motor.stop(), and if that raises as well the exception leaves run()
AltStepFail ==
    /\ alt_pc = "step"
    /\ altVer = "t7"
    /\ Abs(alt_ltgt - alt_current) >= Tol
    /\ alt_errs < MaxErrs
    /\ alt_errs' = alt_errs + 1
    /\ \E stopRaises \in BOOLEAN :
         IF stopRaises
           THEN /\ alt_pc' = "exited"
                /\ UNCHANGED alt_motor
           ELSE /\ alt_pc' = "top"
                /\ alt_motor' = "stop"
    /\ alt_ltgt' = 0
    /\ UNCHANGED <<altVer, alt_emit, alt_current, alt_target, alt_speed,
                   alt_running, alt_slider, gui, notAlt>>

\* telescope_5 run(): if abs(current - target) < 0.1: outputs off, continue
AltCheck ==
    /\ alt_pc = "check"
    /\ IF Abs(alt_current - alt_target) < Tol
         THEN /\ alt_motor' = "stop"
              /\ alt_pc' = "top"
         ELSE /\ alt_pc' = "move"
              /\ UNCHANGED alt_motor
    /\ UNCHANGED <<altVer, alt_emit, alt_errs, alt_current, alt_target,
                   alt_speed, alt_running, alt_ltgt, alt_slider, gui, notAlt>>

\* telescope_5 run(): the move branch; the fields are read again, no lock
AltMove ==
    /\ alt_pc = "move"
    /\ IF alt_current < alt_target
         THEN /\ alt_motor' = "fwd"
              /\ alt_current' = alt_current + alt_speed
         ELSE /\ alt_motor' = "bwd"
              /\ alt_current' = alt_current - alt_speed
    /\ alt_emit' = <<alt_current'>>
    /\ alt_pc' = "top"
    /\ UNCHANGED <<altVer, alt_errs, alt_target, alt_speed, alt_running,
                   alt_ltgt, alt_slider, gui, notAlt>>

\* stop(): running off, output neutral; telescope_7 then waits for run()
AltStop ==
    /\ gui = "idle"
    /\ alt_running' = FALSE
    /\ alt_motor' = IF alt_motor = "none" THEN "none" ELSE "stop"
    /\ gui' = IF altVer = "t7" THEN "wait_alt" ELSE "idle"
    /\ UNCHANGED <<altVer, alt_emit, alt_errs, alt_current, alt_target,
                   alt_speed, alt_pc, alt_ltgt, alt_slider, notAlt>>

\* QThread.wait() returns once run() has returned
AltWaitDone ==
    /\ gui = "wait_alt"
    /\ alt_pc = "exited"
    /\ gui' = "idle"
    /\ UNCHANGED <<altVars, notAlt>>

\* Python round() of an angle to whole degrees: halves go to the even
\* degree
RoundDeg(x) ==
    LET q == x \div 100
        r == x % 100
    IN  IF r < 50 THEN q * 100
        ELSE IF r > 50 THEN (q + 1) * 100
        ELSE IF q % 2 = 0 THEN q * 100 ELSE (q + 1) * 100

\* telescope_7 update_altitude_display(value) on a queued position_signal:
\* alt_slider.setValue(int(round(value))), whose valueChanged, when the
\* value changes, calls set_target(float(v))
AltDisplay ==
    /\ gui = "idle"
    /\ altVer = "t7"
    /\ alt_emit # <<>>
    /\ alt_slider' = RoundDeg(alt_emit[1])
    /\ alt_target' = IF alt_slider' # alt_slider
                       THEN Clamp(alt_slider', AltMin, AltMax)
                       ELSE alt_target
    /\ alt_emit' = <<>>
    /\ UNCHANGED <<altVer, alt_errs, alt_current, alt_speed, alt_running,
                   alt_motor, alt_pc, alt_ltgt, gui, notAlt>>

----------------------------------------------------------------------------
(* Inputs of the azimuth axis                                               *)

\* Manual left/right steps in one run: at most MaxMoves
MaxMoves == 1

AzArgs == {-20}

AzSliderArgs == {200, 36000}

AzSpeedArgs == {70}

----------------------------------------------------------------------------
(* AzimuthMotorThread (telescope_7), AzimuthThread (telescope_8)            *)

AzInit ==
    /\ azVer \in {"t7", "t8"}
    /\ az_current = 0
    /\ az_target = 0
    /\ az_speed = IF azVer = "t7" THEN T7SpeedInit ELSE T8SpeedInit
    /\ az_running = (azVer = "t7")
    /\ az_motor \in {"stop", "none"}
    /\ az_pc = "start"
    /\ az_ltgt = 0
    /\ az_slider = 0
    /\ az_moves = 0
    /\ az_halted = FALSE
    /\ az_mutex = "free"

\* telescope_8 set_azimuth: max(0, min(360, int(target)))
SetAzimuthValue(v) == Clamp(TruncDeg(v), 0, Period)

\* telescope_7 and telescope_5 set_target(target): wrap, target only
AzSetTarget(v) ==
    /\ gui = "idle"
    /\ azVer \in {"t7", "t5"}
    /\ az_target' = Wrap(v)
    /\ az_halted' = FALSE
    /\ UNCHANGED <<azVer, az_mutex, az_current, az_speed, az_running,
                   az_motor, az_pc, az_ltgt, az_slider, az_moves, gui, notAz>>

\* The target slider's valueChanged: telescope_7 set_target(float(v)),
\* telescope_8 on_slider_change(value): set_azimuth(value)
AzSliderChange(v) ==
    /\ gui = "idle"
    /\ v # az_slider
    /\ az_slider' = v
    /\ az_target' = IF azVer = "t7" THEN Wrap(v) ELSE SetAzimuthValue(v)
    /\ az_halted' = FALSE
    /\ UNCHANGED <<azVer, az_mutex, az_current, az_speed, az_running,
                   az_motor, az_pc, az_ltgt, az_moves, gui, notAz>>

\* telescope_8 calibrate_all: azimuth_thread.set_azimuth(0)
AzCalibrate ==
    /\ gui = "idle"
    /\ azVer = "t8"
    /\ az_target' = SetAzimuthValue(0)
    /\ az_halted' = FALSE
    /\ UNCHANGED <<azVer, az_mutex, az_current, az_speed, az_running,
                   az_motor, az_pc, az_ltgt, az_slider, az_moves, gui, notAz>>

\* move_left: telescope_7 set_target(current - 10), telescope_8 slider - 10
AzMoveLeft ==
    /\ gui = "idle"
    /\ az_moves < MaxMoves
    /\ az_moves' = az_moves + 1
    /\ IF azVer = "t7"
         THEN /\ az_target' = Wrap(az_current - ManualStep)
              /\ UNCHANGED az_slider
         ELSE /\ az_slider' = Max(0, az_slider - ManualStep)
              /\ az_target' = SetAzimuthValue(az_slider')
    /\ az_halted' = FALSE
    /\ UNCHANGED <<azVer, az_mutex, az_current, az_speed, az_running,
                   az_motor, az_pc, az_ltgt, gui, notAz>>

\* move_right: telescope_7 set_target(current + 10), telescope_8 slider + 10
AzMoveRight ==
    /\ gui = "idle"
    /\ az_moves < MaxMoves
    /\ az_moves' = az_moves + 1
    /\ IF azVer = "t7"
         THEN /\ az_target' = Wrap(az_current + ManualStep)
              /\ UNCHANGED az_slider
         ELSE /\ az_slider' = Min(Period, az_slider + ManualStep)
              /\ az_target' = SetAzimuthValue(az_slider')
    /\ az_halted' = FALSE
    /\ UNCHANGED <<azVer, az_mutex, az_current, az_speed, az_running,
                   az_motor, az_pc, az_ltgt, gui, notAz>>

\* set_speed(speed): clamp to the variant's range
AzSetSpeed(s) ==
    /\ gui = "idle"
    /\ az_speed' = IF azVer = "t7" THEN Clamp(s, T7SpeedMin, T7SpeedMax)
                                   ELSE Clamp(s, T8SpeedMin, T8SpeedMax)
    /\ UNCHANGED <<azVer, az_mutex, az_current, az_target, az_running,
                   az_motor, az_pc, az_ltgt, az_slider, az_moves, az_halted,
                   gui, notAz>>

\* telescope_8 stop_motors(): motor.stop() and nothing else
AzStopMotors ==
    /\ gui = "idle"
    /\ azVer = "t8"
    /\ az_motor' = IF az_motor = "none" THEN "none" ELSE "stop"
    /\ az_halted' = TRUE
    /\ UNCHANGED <<azVer, az_mutex, az_current, az_target, az_speed,
                   az_running, az_pc, az_ltgt, az_slider, az_moves, gui,
                   notAz>>

\* telescope_7 stop(): running off, motor.stop(), wait()
AzStop ==
    /\ gui = "idle"
    /\ azVer = "t7"
    /\ az_running' = FALSE
    /\ az_motor' = IF az_motor = "none" THEN "none" ELSE "stop"
    /\ gui' = "wait_az"
    /\ UNCHANGED <<azVer, az_mutex, az_current, az_target, az_speed, az_pc,
                   az_ltgt, az_slider, az_moves, az_halted, notAz>>

\* QThread.wait() returns once run() has returned
AzWaitDone ==
    /\ gui = "wait_az"
    /\ az_pc = "exited"
    /\ gui' = "idle"
    /\ UNCHANGED <<azVars, notAz>>

\* run(), entry: telescope_7 returns at once without a Motor;
\* telescope_8 sets running
AzStart ==
    /\ az_pc = "start"
    /\ IF azVer = "t7"
         THEN /\ az_pc' = IF az_motor = "none" THEN "exited" ELSE "top"
              /\ UNCHANGED az_running
         ELSE /\ az_pc' = "top"
              /\ az_running' = TRUE
    /\ UNCHANGED <<azVer, az_mutex, az_current, az_target, az_speed, az_motor,
                   az_ltgt, az_slider, az_moves, az_halted, gui, notAz>>

\* run(): while self.running
AzLoopTest ==
    /\ az_pc = "top"
    /\ az_pc' = IF ~az_running THEN "exited"
                ELSE IF azVer = "t7" THEN "read" ELSE "body"
    /\ UNCHANGED <<azVer, az_mutex, az_current, az_target, az_speed,
                   az_running, az_motor, az_ltgt, az_slider, az_moves,
                   az_halted, gui, notAz>>

\* telescope_7 run(): with self.lock: current, target = ...
AzRead ==
    /\ az_pc = "read"
    /\ az_ltgt' = az_target
    /\ az_pc' = "step"
    /\ UNCHANGED <<azVer, az_mutex, az_current, az_target, az_speed,
                   az_running, az_motor, az_slider, az_moves, az_halted, gui,
                   notAz>>

\* telescope_7 run(): the rest of one iteration, on the local diff
AzStep ==
    /\ az_pc = "step"
    /\ LET diff == ShortestDiff(az_current, az_ltgt) IN
         IF Abs(diff) < Tol
           THEN /\ az_motor' = "stop"
                /\ UNCHANGED az_current
           ELSE IF diff > 0
             THEN /\ az_motor' = "fwd"
                  /\ az_current' = Wrap(az_current + az_speed)
             ELSE /\ az_motor' = "bwd"
                  /\ az_current' = Wrap(az_current - az_speed)
    /\ az_pc' = "top"
    /\ az_ltgt' = 0
    /\ UNCHANGED <<azVer, az_mutex, az_target, az_speed, az_running,
                   az_slider, az_moves, az_halted, gui, notAz>>

\* telescope_8 run(): position after the 0.2 deg step and the 0/360 wrap
T8Wrapped(p) == IF p > Period THEN 0 ELSE IF p < 0 THEN Period ELSE p

\* telescope_8 run(): one iteration, all of it under the mutex
AzBody ==
    /\ az_pc = "body"
    /\ az_mutex = "free"
    /\ IF az_motor # "none" /\ az_current # az_target
         THEN LET diff == ShortestDiff(az_current, az_target)
                  moved == T8Wrapped(IF diff > 0 THEN az_current + T8Step
                                                 ELSE az_current - T8Step)
              IN IF Abs(moved - az_target) < T8Step
                   THEN /\ az_motor' = "stop"
                        /\ az_current' = az_target
                   ELSE /\ az_motor' = IF diff > 0 THEN "fwd" ELSE "bwd"
                        /\ az_current' = moved
         ELSE UNCHANGED <<az_motor, az_current>>
    /\ az_pc' = "top"
    /\ UNCHANGED <<azVer, az_mutex, az_target, az_speed, az_running, az_ltgt,
                   az_slider, az_moves, az_halted, gui, notAz>>

\* telescope_8 AzimuthControlWidget.cleanup(): azimuth_thread.stop(), which
\* takes the mutex, clears running and calls stop_motors(); that asks for
\* the mutex again, which is not recursive and is never given
AzT8Stop ==
    /\ gui = "idle"
    /\ azVer = "t8"
    /\ az_mutex = "free"
    /\ az_mutex' = "gui"
    /\ az_running' = FALSE
    /\ gui' = "az_stop"
    /\ UNCHANGED <<azVer, az_current, az_target, az_speed, az_motor, az_pc,
                   az_ltgt, az_slider, az_moves, az_halted, notAz>>

\* telescope_5 run(): while self.running (no lock anywhere in this variant)
AzT5LoopTest ==
    /\ az_pc = "top"
    /\ azVer = "t5"
    /\ az_pc' = IF az_running THEN "check" ELSE "exited"
    /\ UNCHANGED <<azVer, az_mutex, az_current, az_target, az_speed,
                   az_running, az_motor, az_ltgt, az_slider, az_moves,
                   az_halted, gui, notAz>>

\* telescope_5 run(): the tolerance test, on the plain difference
AzT5Check ==
    /\ az_pc = "check"
    /\ IF Abs(az_current - az_target) < Tol
         THEN /\ az_motor' = "stop"
              /\ az_pc' = "top"
         ELSE /\ az_pc' = "move"
              /\ UNCHANGED az_motor
    /\ UNCHANGED <<azVer, az_mutex, az_current, az_target, az_speed,
                   az_running, az_ltgt, az_slider, az_moves, az_halted, gui,
                   notAz>>

\* telescope_5 run(): the shortest-path difference, read from the fields
\* again, and the step with its wrap
AzT5Move ==
    /\ az_pc = "move"
    /\ LET diff == ShortestDiff(az_current, az_target) IN
         IF diff > 0
           THEN /\ az_motor' = "fwd"
                /\ az_current' = Wrap(az_current + az_speed)
           ELSE /\ az_motor' = "bwd"
                /\ az_current' = Wrap(az_current - az_speed)
    /\ az_pc' = "top"
    /\ UNCHANGED <<azVer, az_mutex, az_target, az_speed, az_running, az_ltgt,
                   az_slider, az_moves, az_halted, gui, notAz>>

----------------------------------------------------------------------------
(* DatabaseThread (telescope_7): the queue of log operations and its writer *)

\* Appends to operation_queue that the model follows
MaxEvents == 2

\* Files whose analysis is logged
ImageFiles == {"a.jpg", "b.jpg"}

\* The data tuple handed to set_operation("log", data): altitude, azimuth,
\* target, action, details
LogEvent(alt, az, target, action, details) ==
    <<alt, az, target, action, details>>

\* DatabaseThread.__init__, and the start() of DatabaseWidget.__init__:
\* without a connection run() returns at once.  The queue is empty, or it
\* holds the events of MaxEvents images analysed since, which change
\* nothing else
DbInit ==
    /\ db_conn \in {"open", "none"}
    /\ db_running = TRUE
    /\ db_lock = "free"
    /\ db_pc = IF db_conn = "none" THEN "exited" ELSE "top"
    /\ db_count \in {0, MaxEvents}
    /\ db_queue = [i \in 1..db_count |->
                     LogEvent(0, 0, "AI", "image_analysis_start", "a.jpg")]
    /\ db_cur = <<>>
    /\ db_log = <<>>
    /\ db_pend = <<>>

\* set_operation(action, data) with the lock free: the append.  A queue
\* that nothing drains grows without limit; the model follows its first
\* MaxEvents appends
SetOperation(e) ==
    /\ db_queue' = IF db_count < MaxEvents THEN Append(db_queue, e)
                                           ELSE db_queue
    /\ db_count' = Min(db_count + 1, MaxEvents)
    /\ UNCHANGED <<db_conn, db_running, db_lock, db_pc, db_cur, db_log,
                   db_pend>>

\* telescope_7 main window _on_image_analyzed(filepath): set_operation,
\* which waits in "with self.lock" while the lock is held
OnImageAnalyzed(f) ==
    /\ gui = "idle"
    /\ db_running
    /\ db_count < MaxEvents
    /\ LET e == LogEvent(0, 0, "AI", "image_analysis_start", f) IN
         IF db_lock = "free"
           THEN /\ SetOperation(e)
                /\ UNCHANGED gui
           ELSE /\ gui' = "wait_lock"
                /\ db_pend' = <<e>>
                /\ UNCHANGED <<db_conn, db_running, db_lock, db_pc, db_queue,
                               db_cur, db_log, db_count>>
    /\ UNCHANGED <<altVars, azVars, sunVars, deltaVars, phaseVars>>

\* set_operation, once the lock is free: the append, and the return
SetOperationLocked ==
    /\ gui = "wait_lock"
    /\ db_lock = "free"
    /\ db_queue' = Append(db_queue, db_pend[1])
    /\ db_count' = db_count + 1
    /\ db_pend' = <<>>
    /\ gui' = "idle"
    /\ UNCHANGED <<db_conn, db_running, db_lock, db_pc, db_cur, db_log,
                   altVars, azVars, sunVars, deltaVars, phaseVars>>

\* run(): "while self.running", then under the lock the test of the queue:
\* empty, and the thread sleeps with the lock held; else pop(0), and the
\* lock is released
DbLoopTest ==
    /\ db_pc = "top"
    /\ IF ~db_running
         THEN /\ db_pc' = "exited"
              /\ UNCHANGED <<db_lock, db_queue, db_cur>>
         ELSE /\ db_lock = "free"
              /\ IF db_queue = <<>>
                   THEN /\ db_lock' = "db"
                        /\ db_pc' = "sleep"
                        /\ UNCHANGED <<db_queue, db_cur>>
                   ELSE /\ db_cur' = <<Head(db_queue)>>
                        /\ db_queue' = Tail(db_queue)
                        /\ db_pc' = "write"
                        /\ UNCHANGED db_lock
    /\ UNCHANGED <<db_conn, db_running, db_log, db_count, db_pend, altVars,
                   azVars, gui, sunVars, deltaVars, phaseVars>>

\* run(): time.sleep(0.1) is over, "continue" leaves the with block
DbWake ==
    /\ db_pc = "sleep"
    /\ db_lock' = "free"
    /\ db_pc' = "top"
    /\ UNCHANGED <<db_conn, db_running, db_queue, db_cur, db_log, db_count,
                   db_pend, altVars, azVars, gui, sunVars, deltaVars,
                   phaseVars>>

\* run(): INSERT and commit of the popped operation; an exception (always,
\* once the connection is closed) is reported, and the loop goes on with
\* the next operation
DbWrite ==
    /\ db_pc = "write"
    /\ \E raises \in BOOLEAN :
         /\ db_conn = "closed" => raises
         /\ db_log' = IF raises THEN db_log ELSE Append(db_log, db_cur[1])
    /\ db_cur' = <<>>
    /\ db_pc' = "top"
    /\ UNCHANGED <<db_conn, db_running, db_lock, db_queue, db_count, db_pend,
                   altVars, azVars, gui, sunVars, deltaVars, phaseVars>>

\* DatabaseWidget.closeEvent: db_thread.stop(), up to its wait()
DbStop ==
    /\ gui = "idle"
    /\ db_running
    /\ db_lock = "free"
    /\ db_running' = FALSE
    /\ db_conn' = IF db_conn = "open" THEN "closed" ELSE db_conn
    /\ gui' = "wait_db"
    /\ UNCHANGED <<db_lock, db_pc, db_queue, db_cur, db_log, db_count,
                   db_pend, altVars, azVars, sunVars, deltaVars, phaseVars>>

\* stop(): wait() returns once run() has returned
DbWaitDone ==
    /\ gui = "wait_db"
    /\ db_pc = "exited"
    /\ gui' = "idle"
    /\ UNCHANGED <<dbVars, altVars, azVars, sunVars, deltaVars, phaseVars>>

----------------------------------------------------------------------------
(* Sun tracking: SunTrackingWidget and its thread (telescope_3, _6, _7),   *)
(* SunWidget and TelescopeMainWindow.track_sun (telescope_8), and the      *)
(* telescope_7 main window's slew handler                                  *)

\* Emissions the GUI thread has not handled yet: at most MaxQueue
MaxQueue == 1

\* <<altitude, azimuth>> the ephemeris may return: the Sun low in the sky,
\* just west of north
SunPositions == {<<50, 35950>>}

\* telescope_7 calculate_sun_position, on an exception: return 0.0, 0.0
SunCalcError == <<0, 0>>

\* The observer the program starts with when no GPS string parses:
\* telescope_7 main window, lat_numeric = 40.7128, lon_numeric = -74.0060
DefaultLat == 40

DefaultLon == -74

\* telescope_8 SETTINGS["location"]: 37.7749, -122.4194
T8DefaultLat == 37

T8DefaultLon == -122

\* Latitude and longitude limits of telescope_8 update_location
LatMax == 90

LonMax == 180

\* Coordinates handed to the location setters: in range, on the limits,
\* just outside and far outside
LatArgs == {-91, -90, -45, 0, 45, 60, 90, 91, 123}

LonArgs == {-181, -180, -74, 0, 74, 120, 180, 181, 200}

SunInit ==
    /\ sunVer \in {"t3", "t6", "t7", "t8"}
    /\ filter_checked = FALSE
    /\ auto_track = FALSE
    /\ auto_btn = FALSE
    /\ sun_pc = "top"
    /\ sun_queue = <<>>
    /\ sun_warned = FALSE
    /\ moon_track = FALSE
    /\ recording = FALSE
    /\ obs_lat = IF sunVer = "t8" THEN T8DefaultLat ELSE DefaultLat
    /\ obs_lon = IF sunVer = "t8" THEN T8DefaultLon ELSE DefaultLon
    /\ calc_lat = obs_lat
    /\ calc_lon = obs_lon
    /\ calc_seen = {<<obs_lat, obs_lon>>}
    /\ moon_pc = "top"
    /\ moon_queue = <<>>

\* The solar-filter confirmation: filter_check.isChecked(). telescope_8 has
\* no such control, and there nothing ever confirms
safety_confirmed == filter_checked

\* telescope_7 main window _handle_tracking_auto_record(enabled, target):
\* camera_thread.recording afterwards
AutoRecord(enabled) == enabled

\* _handle_tracking_auto_record(enabled, target): its set_operation, made
\* only when the recording is switched
AutoRecordLog(enabled, target) ==
    IF AutoRecord(enabled) # recording
      THEN SetOperation(LogEvent(0, 0, target,
                                 IF enabled THEN "auto_record_start"
                                            ELSE "auto_record_stop",
                                 "Auto-record"))
      ELSE UNCHANGED dbVars

\* toggle_filter / _toggle_slew_button: the filter box changes state.
\* telescope_3 only enables the slew button; telescope_6 and _7 uncheck
\* auto_track_btn, whose stateChanged handler clears the thread's flag
\* (and, in telescope_7, emits auto_track_check(False))
ToggleFilter ==
    /\ gui = "idle"
    /\ sunVer \in {"t3", "t6", "t7"}
    /\ filter_checked' = ~filter_checked
    /\ IF sunVer # "t3" /\ filter_checked /\ auto_btn
         THEN /\ auto_btn' = FALSE
              /\ auto_track' = FALSE
              /\ recording' = IF sunVer = "t7" THEN AutoRecord(FALSE)
                                               ELSE recording
              /\ IF sunVer = "t7" THEN AutoRecordLog(FALSE, "Sun (Filter)")
                                  ELSE UNCHANGED dbVars
         ELSE UNCHANGED <<auto_btn, auto_track, recording, dbVars>>
    /\ UNCHANGED <<sunVer, calc_seen, calc_lat, calc_lon, moon_pc, moon_queue,
                   obs_lat, obs_lon, sun_warned, moon_track, sun_pc,
                   sun_queue, altVars, azVars, gui, deltaVars, phaseVars>>

\* toggle_auto_track(state) of auto_track_btn, which is enabled only while
\* the filter is confirmed; telescope_6 has no check of its own
ToggleAutoTrack ==
    /\ gui = "idle"
    /\ sunVer \in {"t6", "t7"}
    /\ filter_checked
    /\ LET enable == ~auto_btn IN
         IF sunVer = "t7" /\ enable /\ ~filter_checked
           THEN /\ auto_btn' = FALSE
                /\ auto_track' = FALSE
                /\ recording' = AutoRecord(FALSE)
                /\ AutoRecordLog(FALSE, "Sun (Filter)")
                /\ sun_warned' = TRUE
           ELSE /\ auto_btn' = enable
                /\ auto_track' = enable
                /\ recording' = IF sunVer = "t7" THEN AutoRecord(enable)
                                                 ELSE recording
                /\ IF sunVer = "t7"
                     THEN AutoRecordLog(enable, "Sun (Filter)")
                     ELSE UNCHANGED dbVars
                /\ sun_warned' = FALSE
    /\ UNCHANGED <<sunVer, calc_seen, calc_lat, calc_lon, moon_pc, moon_queue,
                   obs_lat, obs_lon, moon_track, filter_checked, sun_pc,
                   sun_queue, altVars, azVars, gui, deltaVars, phaseVars>>

\* track_sun of the main window: telescope_6 checks the filter box and
\* checks auto_track_btn; telescope_8 calls start_tracking() at once
TrackSun ==
    /\ gui = "idle"
    /\ sunVer \in {"t6", "t8"}
    /\ IF sunVer = "t8"
         THEN /\ auto_track' = TRUE
              /\ UNCHANGED auto_btn
         ELSE IF ~filter_checked
           THEN UNCHANGED <<auto_track, auto_btn>>
           ELSE /\ auto_btn' = TRUE
                /\ auto_track' = TRUE
    /\ sun_warned' = (sunVer = "t6" /\ ~filter_checked)
    /\ UNCHANGED <<sunVer, calc_seen, calc_lat, calc_lon, moon_pc, moon_queue,
                   obs_lat, obs_lon, moon_track, recording, filter_checked,
                   sun_pc, sun_queue, altVars, azVars, gui, deltaVars,
                   phaseVars, dbVars>>

\* telescope_8 start_track_btn: sun_thread.start_tracking()
StartTracking ==
    /\ gui = "idle"
    /\ sunVer = "t8"
    /\ auto_track' = TRUE
    /\ sun_warned' = FALSE
    /\ UNCHANGED <<sunVer, calc_seen, calc_lat, calc_lon, moon_pc, moon_queue,
                   obs_lat, obs_lon, moon_track, recording, filter_checked,
                   auto_btn, sun_pc, sun_queue, altVars, azVars, gui,
                   deltaVars, phaseVars, dbVars>>

\* telescope_8 stop_track_btn: sun_thread.stop_tracking()
StopTracking ==
    /\ gui = "idle"
    /\ sunVer = "t8"
    /\ auto_track' = FALSE
    /\ sun_warned' = FALSE
    /\ UNCHANGED <<sunVer, calc_seen, calc_lat, calc_lon, moon_pc, moon_queue,
                   obs_lat, obs_lon, moon_track, recording, filter_checked,
                   auto_btn, sun_pc, sun_queue, altVars, azVars, gui,
                   deltaVars, phaseVars, dbVars>>

\* telescope_3 _toggle_tracking: stop, or start if the filter box is checked
ToggleTracking ==
    /\ gui = "idle"
    /\ sunVer = "t3"
    /\ auto_track' = IF auto_track THEN FALSE ELSE filter_checked
    /\ sun_warned' = (~auto_track /\ ~filter_checked)
    /\ UNCHANGED <<sunVer, calc_seen, calc_lat, calc_lon, moon_pc, moon_queue,
                   obs_lat, obs_lon, moon_track, recording, filter_checked,
                   auto_btn, sun_pc, sun_queue, altVars, azVars, gui,
                   deltaVars, phaseVars, dbVars>>

\* telescope_7 SunTrackingThread.run(): read auto_track under the lock
SunThreadRead ==
    /\ sunVer = "t7"
    /\ sun_pc = "top"
    /\ sun_pc' = IF auto_track THEN "emit" ELSE "top"
    /\ UNCHANGED <<sunVer, calc_seen, calc_lat, calc_lon, moon_pc, moon_queue,
                   obs_lat, obs_lon, sun_warned, moon_track, recording,
                   filter_checked, auto_track, auto_btn, sun_queue, altVars,
                   azVars, gui, deltaVars, phaseVars, dbVars>>

\* telescope_7 SunTrackingThread.run(): calculate_sun_position() and
\* position_signal.emit(alt, az), which Qt queues to the GUI thread
SunThreadEmit ==
    /\ sunVer = "t7"
    /\ sun_pc = "emit"
    /\ Len(sun_queue) < MaxQueue
    /\ \E p \in SunPositions \cup {SunCalcError} :
         sun_queue' = Append(sun_queue, p)
    /\ sun_pc' = "top"
    /\ UNCHANGED <<sunVer, calc_seen, calc_lat, calc_lon, moon_pc, moon_queue,
                   obs_lat, obs_lon, sun_warned, moon_track, recording,
                   filter_checked, auto_track, auto_btn, altVars, azVars, gui,
                   deltaVars, phaseVars, dbVars>>

\* telescope_7 main window _slew_to_sun_position(target_alt, target_az):
\* nothing without the filter box checked; else set_target on both axes and
\* setValue(int(..)) on both sliders, whose valueChanged, when the value
\* changes, calls set_target again with the whole degree
SlewTargets(p) ==
    LET safe_alt == Clamp(p[1], AltMin, AltMax)
        safe_az == Wrap(p[2])
    IN /\ alt_slider' = TruncDeg(safe_alt)
       /\ alt_target' = IF alt_slider' # alt_slider
                          THEN Clamp(alt_slider', AltMin, AltMax)
                          ELSE safe_alt
       /\ az_slider' = TruncDeg(safe_az)
       /\ az_target' = IF az_slider' # az_slider
                         THEN Wrap(az_slider')
                         ELSE safe_az
       /\ az_halted' = FALSE

\* _slew_to_sun_position, _slew_to_moon_position: the set_operation that
\* ends them, with the angles the axes were sent to
SlewLog(p, target, action) ==
    SetOperation(LogEvent(Clamp(p[1], AltMin, AltMax), Wrap(p[2]), target,
                          action, "Slewed"))

\* The same handler without its early return: the warning, and the slew
\* all the same
SlewAnyway(p) ==
    /\ sun_warned' = ~filter_checked
    /\ SlewTargets(p)
    /\ SlewLog(p, "Sun", "goto_sun")

SlewToSun(p) ==
    /\ sun_warned' = ~filter_checked
    /\ IF ~filter_checked
         THEN UNCHANGED <<alt_target, alt_slider, az_target, az_slider,
                          az_halted, dbVars>>
         ELSE /\ SlewTargets(p)
              /\ SlewLog(p, "Sun", "goto_sun")

\* What SlewToSun leaves alone
slewFrame == <<altVer, alt_emit, alt_errs, alt_current, alt_speed,
               alt_running, alt_motor, alt_pc, alt_ltgt, azVer, az_mutex,
               az_current, az_speed, az_running, az_motor, az_pc, az_ltgt,
               az_moves, gui, deltaVars, phaseVars>>

\* telescope_7 update_sun_position(alt, az) on a queued position_signal:
\* slew_to_sun.emit(alt, az), delivered at once to _slew_to_sun_position
DeliverPosition ==
    /\ gui = "idle"
    /\ sunVer = "t7"
    /\ sun_queue # <<>>
    /\ SlewToSun(Head(sun_queue))
    /\ sun_queue' = Tail(sun_queue)
    /\ UNCHANGED <<sunVer, calc_seen, calc_lat, calc_lon, moon_pc, moon_queue,
                   obs_lat, obs_lon, moon_track, recording, filter_checked,
                   auto_track, auto_btn, sun_pc, slewFrame>>

\* telescope_7 slew_to_sun_position() of slew_btn, which is enabled only
\* while the filter is confirmed
SlewToSunClick ==
    /\ gui = "idle"
    /\ sunVer = "t7"
    /\ filter_checked
    /\ \E p \in SunPositions \cup {SunCalcError} : SlewToSun(p)
    /\ UNCHANGED <<sunVer, calc_seen, calc_lat, calc_lon, moon_pc, moon_queue,
                   obs_lat, obs_lon, moon_track, recording, filter_checked,
                   auto_track, auto_btn, sun_pc, sun_queue, slewFrame>>

\* telescope_8 update_location: the range test of the two coordinates
ValidLocation(lat, lon) ==
    /\ -LatMax <= lat /\ lat <= LatMax
    /\ -LonMax <= lon /\ lon <= LonMax

\* telescope_7 SunTrackingThread: self.lat = float(lat), self.lon =
\* float(lon), in __init__ with the coordinates parsed from the
\* configuration and in set_location(lat, lon)
SetLocation(lat, lon) ==
    /\ gui = "idle"
    /\ sunVer = "t7"
    /\ obs_lat' = lat
    /\ obs_lon' = lon
    /\ calc_seen' = IF sun_pc = "lon" THEN calc_seen \cup {<<lat, lon>>}
                                      ELSE calc_seen
    /\ UNCHANGED <<sunVer, calc_lat, calc_lon, moon_pc, moon_queue,
                   sun_warned, moon_track, recording, filter_checked,
                   auto_track, auto_btn, sun_pc, sun_queue, altVars, azVars,
                   gui, deltaVars, phaseVars, dbVars>>

\* telescope_8 SunWidget.update_location: ValueError outside the ranges;
\* else set_location, which takes a zero coordinate for a missing one and
\* keeps the stored value
UpdateLocation(lat, lon) ==
    /\ gui = "idle"
    /\ sunVer = "t8"
    /\ IF ValidLocation(lat, lon)
         THEN /\ obs_lat' = IF lat # 0 THEN lat ELSE obs_lat
              /\ obs_lon' = IF lon # 0 THEN lon ELSE obs_lon
         ELSE UNCHANGED <<obs_lat, obs_lon>>
    /\ UNCHANGED <<sunVer, calc_seen, calc_lat, calc_lon, moon_pc, moon_queue,
                   sun_warned, moon_track, recording, filter_checked,
                   auto_track, auto_btn, sun_pc, sun_queue, altVars, azVars,
                   gui, deltaVars, phaseVars, dbVars>>

\* telescope_7 Moon widget toggle_auto_track(state): the Moon thread's flag,
\* and auto_track_check to the main window's _handle_tracking_auto_record
ToggleMoonTrack ==
    /\ gui = "idle"
    /\ sunVer = "t7"
    /\ moon_track' = ~moon_track
    /\ recording' = AutoRecord(~moon_track)
    /\ AutoRecordLog(~moon_track, "Moon")
    /\ UNCHANGED <<sunVer, calc_seen, calc_lat, calc_lon, moon_pc, moon_queue,
                   obs_lat, obs_lon, sun_warned, filter_checked, auto_track,
                   auto_btn, sun_pc, sun_queue, altVars, azVars, gui,
                   deltaVars, phaseVars>>

\* Moon positions the calculation can return, as <<altitude, azimuth>>
MoonPositions == {<<3000, 12000>>}

\* calculate_moon_position() after an exception: 0.0, 0.0
MoonCalcError == <<0, 0>>

\* telescope_7 MoonTrackingThread.run(): read auto_track under the lock
MoonThreadRead ==
    /\ sunVer = "t7"
    /\ moon_pc = "top"
    /\ moon_pc' = IF moon_track THEN "emit" ELSE "top"
    /\ UNCHANGED <<sunVer, calc_seen, calc_lat, calc_lon, moon_queue, obs_lat,
                   obs_lon, sun_warned, moon_track, recording, filter_checked,
                   auto_track, auto_btn, sun_pc, sun_queue, altVars, azVars,
                   gui, deltaVars, phaseVars, dbVars>>

\* MoonTrackingThread.run(): calculate_moon_position() and
\* position_signal.emit(alt, az), which Qt queues to the GUI thread
MoonThreadEmit ==
    /\ sunVer = "t7"
    /\ moon_pc = "emit"
    /\ Len(moon_queue) < MaxQueue
    /\ \E p \in MoonPositions \cup {MoonCalcError} :
         moon_queue' = Append(moon_queue, p)
    /\ moon_pc' = "top"
    /\ UNCHANGED <<sunVer, calc_seen, calc_lat, calc_lon, obs_lat, obs_lon,
                   sun_warned, moon_track, recording, filter_checked,
                   auto_track, auto_btn, sun_pc, sun_queue, altVars, azVars,
                   gui, deltaVars, phaseVars, dbVars>>

\* telescope_7 main window _slew_to_moon_position(target_alt, target_az):
\* set_target on both axes, setValue(int(..)) on both sliders, and the log
SlewToMoon(p) ==
    /\ SlewTargets(p)
    /\ SlewLog(p, "Moon", "goto_moon")

\* update_moon_position(alt, az) on a queued position_signal:
\* slew_to_moon.emit(alt, az), delivered at once to _slew_to_moon_position
DeliverMoon ==
    /\ gui = "idle"
    /\ sunVer = "t7"
    /\ moon_queue # <<>>
    /\ SlewToMoon(Head(moon_queue))
    /\ moon_queue' = Tail(moon_queue)
    /\ UNCHANGED <<sunVer, calc_seen, calc_lat, calc_lon, moon_pc, obs_lat,
                   obs_lon, sun_warned, moon_track, recording, filter_checked,
                   auto_track, auto_btn, sun_pc, sun_queue, slewFrame>>

\* slew_to_moon_position() of the Moon widget's slew button
MoonSlewClick ==
    /\ gui = "idle"
    /\ sunVer = "t7"
    /\ \E p \in MoonPositions \cup {MoonCalcError} : SlewToMoon(p)
    /\ UNCHANGED <<sunVer, calc_seen, calc_lat, calc_lon, moon_pc, moon_queue,
                   obs_lat, obs_lon, sun_warned, moon_track, recording,
                   filter_checked, auto_track, auto_btn, sun_pc, sun_queue,
                   slewFrame>>

\* telescope_7 calculate_sun_position() in run(): observer.lat =
\* str(self.lat), taken without the lock
SunThreadLat ==
    /\ sunVer = "t7"
    /\ sun_pc = "emit"
    /\ calc_lat' = obs_lat
    /\ calc_seen' = {<<obs_lat, obs_lon>>}
    /\ sun_pc' = "lon"
    /\ UNCHANGED <<sunVer, calc_lon, moon_pc, moon_queue, obs_lat, obs_lon,
                   sun_warned, moon_track, recording, filter_checked,
                   auto_track, auto_btn, sun_queue, altVars, azVars, gui,
                   deltaVars, phaseVars, dbVars>>

\* calculate_sun_position() in run(): observer.lon = str(self.lon), the
\* rest of the calculation and position_signal.emit(alt, az)
SunThreadLon ==
    /\ sunVer = "t7"
    /\ sun_pc = "lon"
    /\ Len(sun_queue) < MaxQueue
    /\ calc_lon' = obs_lon
    /\ \E p \in SunPositions \cup {SunCalcError} :
         sun_queue' = Append(sun_queue, p)
    /\ sun_pc' = "top"
    /\ UNCHANGED <<sunVer, calc_seen, calc_lat, moon_pc, moon_queue, obs_lat,
                   obs_lon, sun_warned, moon_track, recording, filter_checked,
                   auto_track, auto_btn, altVars, azVars, gui, deltaVars,
                   phaseVars, dbVars>>

----------------------------------------------------------------------------
(* The shortest-path delta of the azimuth run() loops as a function         *)

DeltaPoints == 36

\* Azimuths in [0, 360): a grid, and the values next to 0, 180 and 360
DeltaGrid ==
    {k * (Period \div DeltaPoints) : k \in 0..(DeltaPoints - 1)}
      \cup {1, Half - 1, Half, Half + 1, Period - 1}

DeltaIdle ==
    /\ d_diff = 0
    /\ d_pc = "ready"

DeltaInit ==
    /\ d_current \in DeltaGrid
    /\ d_target \in DeltaGrid
    /\ DeltaIdle

\* diff = target - current and its correction, as run() computes them
ApplyDelta ==
    /\ d_pc = "ready"
    /\ d_diff' = ShortestDiff(d_current, d_target)
    /\ d_pc' = "done"
    /\ UNCHANGED <<d_current, d_target, altVars, azVars, gui, sunVars,
                   dbVars, phaseVars>>

----------------------------------------------------------------------------
(* The name of the Moon's phase, as a function                              *)

\* telescope MoonPositionThread.calculate_moon_phase(illumination)
calculate_moon_phase(illumination) ==
    IF illumination >= 98 THEN "Full Moon"
    ELSE IF illumination >= 50 THEN "Waning Gibbous"
    ELSE IF illumination >= 2 THEN "Waning Crescent"
    ELSE IF illumination <= 0 THEN "New Moon"
    ELSE IF illumination <= 50 THEN "Waxing Crescent"
    ELSE "Waxing Gibbous"

\* telescope_7 update_moon_phase(): the name chosen for phase =
\* ephem.Moon(..).phase, the percent of the disc that is illuminated
update_moon_phase(phase) ==
    IF phase < 10 THEN "New Moon"
    ELSE IF phase < 40 THEN "Waxing Crescent"
    ELSE IF phase < 60 THEN "First Quarter"
    ELSE IF phase < 90 THEN "Waxing Gibbous"
    ELSE IF phase < 100 THEN "Full Moon"
    ELSE IF phase < 140 THEN "Waning Gibbous"
    ELSE IF phase < 160 THEN "Last Quarter"
    ELSE "Waning Crescent"

\* Every whole percentage of illumination, on either side of the cycle
PhaseInit ==
    /\ phVer \in {"telescope", "telescope_7"}
    /\ ph_illum \in 0..100
    /\ ph_waxing \in BOOLEAN
    /\ ph_name = ""
    /\ ph_pc = "ready"

ApplyPhase ==
    /\ ph_pc = "ready"
    /\ ph_name' = IF phVer = "telescope" THEN calculate_moon_phase(ph_illum)
                                         ELSE update_moon_phase(ph_illum)
    /\ ph_pc' = "done"
    /\ UNCHANGED <<phVer, ph_illum, ph_waxing, altVars, azVars, gui, sunVars,
                   deltaVars, dbVars>>

----------------------------------------------------------------------------
(* Specifications                                                           *)

Init ==
    /\ AltInit /\ AzInit /\ SunInit /\ DeltaInit /\ DbInit /\ PhaseInit
    /\ gui = "idle"

\* The parts a specification leaves at rest
AltAtRest == altVer = "t7" /\ alt_motor = "stop"

AzAtRest == azVer = "t7" /\ az_motor = "stop"

SunAtRest == sunVer = "t7"

DeltaAtRest == d_current = 0 /\ d_target = 0

\* No connection, so that nothing drains the queue, and a queue that is
\* followed no further
DbAtRest == db_conn = "none" /\ db_count = MaxEvents

PhaseAtRest == phVer = "telescope" /\ ph_illum = 0 /\ ph_waxing = TRUE

\* The queue as __init__ leaves it
DbFresh == db_count = 0

\* The altitude axis alone, telescope_7 or telescope_5
InitAlt ==
    AzAtRest /\ SunAtRest /\ DeltaAtRest /\ DbAtRest /\ PhaseAtRest /\ Init

NextAlt ==
    \/ \E v \in AltArgs : AltSetTarget(v)
    \/ \E s \in AltSpeedArgs : AltSetSpeed(s)
    \/ AltStart
    \/ AltLoopTest
    \/ AltRead
    \/ AltStep
    \/ AltCheck
    \/ AltMove
    \/ AltStop
    \/ AltWaitDone

SpecAlt == InitAlt /\ [][NextAlt]_vars

\* The altitude axis commanded before its thread starts and left alone
\* afterwards; the scheduler keeps running the thread
NextArrive ==
    \/ alt_pc = "start" /\ \E v \in AltArgs : AltSetTarget(v)
    \/ alt_pc = "start" /\ \E s \in AltSpeedArgs : AltSetSpeed(s)
    \/ AltStart
    \/ AltLoopTest
    \/ AltRead
    \/ AltStep
    \/ AltCheck
    \/ AltMove

AltThread ==
    AltStart \/ AltLoopTest \/ AltRead \/ AltStep \/ AltCheck \/ AltMove

SpecArrive == InitAlt /\ [][NextArrive]_vars /\ WF_vars(AltThread)

\* The telescope_7 altitude axis with an actuator that may fail
InitFault == InitAlt /\ altVer = "t7"

NextFault ==
    \/ \E v \in AltArgs : AltSetTarget(v)
    \/ \E s \in AltSpeedArgs : AltSetSpeed(s)
    \/ AltStart
    \/ AltLoopTest
    \/ AltRead
    \/ AltStep
    \/ AltStepFail
    \/ AltStop
    \/ AltWaitDone

SpecFault == InitFault /\ [][NextFault]_vars

\* The azimuth axis alone, telescope_7 or telescope_8
InitAz ==
    AltAtRest /\ SunAtRest /\ DeltaAtRest /\ DbAtRest /\ PhaseAtRest /\ Init

NextAz ==
    \/ \E v \in AzArgs : AzSetTarget(v)
    \/ \E v \in AzSliderArgs : AzSliderChange(v)
    \/ AzCalibrate
    \/ AzMoveLeft
    \/ AzMoveRight
    \/ \E s \in AzSpeedArgs : AzSetSpeed(s)
    \/ AzStopMotors
    \/ AzStop
    \/ AzWaitDone
    \/ AzStart
    \/ AzLoopTest
    \/ AzRead
    \/ AzStep
    \/ AzBody

SpecAz == InitAz /\ [][NextAz]_vars

\* The Sun widgets, with the telescope_7 axes they command
InitSun ==
    AltAtRest /\ AzAtRest /\ DeltaAtRest /\ DbAtRest /\ PhaseAtRest /\ Init

NextSun ==
    \/ ToggleFilter
    \/ ToggleAutoTrack
    \/ TrackSun
    \/ StartTracking
    \/ StopTracking
    \/ ToggleTracking
    \/ SunThreadRead
    \/ SunThreadEmit
    \/ DeliverPosition
    \/ SlewToSunClick
    \/ AltStart
    \/ AltLoopTest
    \/ AltRead
    \/ AltStep
    \/ AzStart
    \/ AzLoopTest
    \/ AzRead
    \/ AzStep

SpecSun == InitSun /\ [][NextSun]_vars

\* The Sun and Moon controls and the Sun thread, with the axis threads not
\* yet started
NextGate ==
    \/ ToggleFilter
    \/ ToggleAutoTrack
    \/ TrackSun
    \/ StartTracking
    \/ StopTracking
    \/ ToggleTracking
    \/ SunThreadRead
    \/ SunThreadEmit
    \/ DeliverPosition
    \/ SlewToSunClick
    \/ ToggleMoonTrack

SpecGate == InitSun /\ [][NextGate]_vars

\* The observer's location being set, in telescope_7 and telescope_8
InitLoc == InitSun /\ sunVer \in {"t7", "t8"}

NextLoc ==
    \/ \E lat \in LatArgs, lon \in LonArgs : SetLocation(lat, lon)
    \/ \E lat \in LatArgs, lon \in LonArgs : UpdateLocation(lat, lon)

SpecLoc == InitLoc /\ [][NextLoc]_vars

\* The telescope_8 azimuth thread with its commands and its shutdown
InitHalt == InitAz /\ azVer = "t8"

NextHalt ==
    \/ \E v \in AzSliderArgs : AzSliderChange(v)
    \/ \E s \in AzSpeedArgs : AzSetSpeed(s)
    \/ AzStopMotors
    \/ AzT8Stop
    \/ AzStart
    \/ AzLoopTest
    \/ AzBody

SpecHalt == InitHalt /\ [][NextHalt]_vars

\* The telescope_7 altitude axis with its display: the thread emits a
\* position once the GUI thread has handled the one before
InitShow == InitAlt /\ altVer = "t7"

NextShow ==
    \/ \E v \in AltArgs : AltSetTarget(v)
    \/ AltStart
    \/ AltLoopTest
    \/ AltRead
    \/ alt_emit = <<>> /\ AltStep
    \/ AltDisplay

SpecShow == InitShow /\ [][NextShow]_vars

\* The telescope_5 altitude axis with its emergency stop.  The user stops
\* the axis, and sets a target, only while the axis rests at its target,
\* and the thread runs whenever it can
InitRestart == InitAlt /\ altVer = "t5"

AltNear == Abs(alt_target - alt_current) < Tol

NextRestart ==
    \/ AltNear /\ \E v \in AltArgs : AltSetTarget(v)
    \/ AltNear /\ AltStop
    \/ AltStart
    \/ AltLoopTest
    \/ AltCheck
    \/ AltMove

SpecRestart == InitRestart /\ [][NextRestart]_vars /\ WF_vars(AltThread)

\* telescope_7: the Sun and Moon controls, both tracking threads and the
\* log queue, with the axis threads not yet started and no database
\* connection
InitTrack ==
    /\ AltAtRest /\ AzAtRest /\ SunAtRest /\ DeltaAtRest
    /\ DbFresh /\ db_conn = "none"
    /\ PhaseAtRest
    /\ Init

NextTrack ==
    \/ ToggleFilter
    \/ ToggleAutoTrack
    \/ SunThreadRead
    \/ SunThreadEmit
    \/ DeliverPosition
    \/ SlewToSunClick
    \/ ToggleMoonTrack
    \/ MoonThreadRead
    \/ MoonThreadEmit
    \/ DeliverMoon
    \/ MoonSlewClick

SpecTrack == InitTrack /\ [][NextTrack]_vars

\* telescope_7: the Sun thread's calculation, read by read, while the
\* location is being set
InitCalc == InitSun /\ sunVer = "t7"

\* Locations saved while the Sun thread calculates
CalcLatArgs == {-45, 45}

CalcLonArgs == {-74, 120}

NextCalc ==
    \/ ToggleFilter
    \/ ToggleAutoTrack
    \/ SunThreadRead
    \/ SunThreadLat
    \/ SunThreadLon
    \/ DeliverPosition
    \/ \E lat \in CalcLatArgs, lon \in CalcLonArgs : SetLocation(lat, lon)

SpecCalc == InitCalc /\ [][NextCalc]_vars

\* The log queue of telescope_7 and its writer thread, with the database
\* open, up to the closing of the database widget
InitLog ==
    /\ AltAtRest /\ AzAtRest /\ SunAtRest /\ DeltaAtRest
    /\ DbFresh /\ db_conn = "open"
    /\ PhaseAtRest
    /\ Init

NextLog ==
    \/ \E f \in ImageFiles : OnImageAnalyzed(f)
    \/ SetOperationLocked
    \/ DbLoopTest
    \/ DbWake
    \/ DbWrite
    \/ DbStop
    \/ DbWaitDone

SpecLog == InitLog /\ [][NextLog]_vars

\* The Moon phase name at every illumination
InitPhase ==
    AltAtRest /\ AzAtRest /\ SunAtRest /\ DeltaAtRest /\ DbAtRest /\ Init

NextPhase == ApplyPhase

SpecPhase == InitPhase /\ [][NextPhase]_vars

\* The shortest-path delta on every pair of the grid
InitDelta ==
    AltAtRest /\ AzAtRest /\ SunAtRest /\ DbAtRest /\ PhaseAtRest /\ Init

NextDelta == ApplyDelta

SpecDelta == InitDelta /\ [][NextDelta]_vars

\* The azimuth loop of telescope_7 and telescope_5 on its way between two
\* positions: the axis stands at a position it has reached before, at top
\* speed, and targets keep arriving
TurnGrid == {0, 1000, 18000, 19000, 35000}

InitTurn ==
    /\ AltInit /\ AltAtRest
    /\ SunInit /\ SunAtRest
    /\ DeltaInit /\ DeltaAtRest
    /\ DbInit /\ DbAtRest
    /\ PhaseInit /\ PhaseAtRest
    /\ gui = "idle"
    /\ azVer \in {"t7", "t5"}
    /\ az_current \in TurnGrid
    /\ az_target \in TurnGrid
    /\ az_speed = IF azVer = "t7" THEN T7SpeedMax ELSE T5SpeedMax
    /\ az_running = TRUE
    /\ az_motor = "stop"
    /\ az_pc = "top"
    /\ az_ltgt = 0
    /\ az_slider = 0
    /\ az_moves = 0
    /\ az_halted = FALSE
    /\ az_mutex = "free"

NextTurn ==
    \/ \E v \in TurnGrid : AzSetTarget(v)
    \/ (azVer = "t7" /\ AzLoopTest)
    \/ AzRead
    \/ AzStep
    \/ AzT5LoopTest
    \/ AzT5Check
    \/ AzT5Move

SpecTurn == InitTurn /\ [][NextTurn]_vars

----------------------------------------------------------------------------
(* Properties                                                               *)

\* C1: solar interlock as a standing invariant: whenever Sun tracking is
\* active, the solar-filter confirmation is true at that moment.
SolarInterlock == auto_track => safety_confirmed

\* C2: through every entry point, a start of Sun tracking issued while the
\* confirmation is false is rejected: tracking stays off in that step.
StartNeedsSafety ==
    [][(~auto_track /\ ~safety_confirmed) => ~auto_track']_vars

\* C3: when the confirmation is revoked while Sun tracking is active, that
\* step turns tracking off and stops both axes where they are, so that they
\* no longer move toward the last Sun target.
RevokeStopsAll ==
    [][(auto_track /\ safety_confirmed /\ ~safety_confirmed')
         => /\ ~auto_track'
            /\ alt_target' = alt_current'
            /\ az_target' = az_current']_vars

\* C4: once stop has run on the azimuth axis, and until a new target is
\* set, the target equals the current angle and the actuator is neutral:
\* the axis does not resume moving toward the old target.
StopHolds ==
    az_halted => /\ az_target = az_current
                 /\ az_motor \in {"stop", "none"}

\* C5: when stop() has run and the altitude thread has finished, the
\* actuator's final output is neutral, whatever tick was in flight.
StopWinsOverTick ==
    (~alt_running /\ alt_pc = "exited") => alt_motor \in {"stop", "none"}

\* C6: the altitude current angle lies in [0, 90] in every reachable state.
AltitudeInRange == alt_current >= AltMin /\ alt_current <= AltMax

\* C7: the azimuth current and target angles lie in [0, 360) in every
\* reachable state: the value 360 itself never occurs.
AzimuthHalfOpen ==
    /\ az_current >= 0 /\ az_current < Period
    /\ az_target >= 0 /\ az_target < Period

\* C8: left alone, the altitude axis eventually stays within the 0.1 deg
\* tolerance of its target with the actuator stopped (an axis that has no
\* actuator has nothing to stop).
Arrival ==
    <>[](\/ alt_motor = "none"
         \/ /\ Abs(alt_target - alt_current) < Tol
            /\ alt_motor = "stop")

\* C9: setting a target stores the normalized value and moves nothing: on
\* altitude the value clamped to [0, 90], on azimuth the value wrapped
\* modulo 360.
SetTargetNormalizes ==
    [][/\ \A v \in AltArgs :
            AltSetTarget(v) => /\ alt_target' = Clamp(v, AltMin, AltMax)
                               /\ alt_current' = alt_current
       /\ \A v \in AzArgs :
            AzSetTarget(v) => /\ az_target' = Wrap(v)
                              /\ az_current' = az_current
       /\ \A v \in AzSliderArgs :
            AzSliderChange(v) => /\ az_target' = Wrap(v)
                                 /\ az_current' = az_current]_vars

\* C10: for a current and a target in [0, 360), the delta computed has
\* magnitude at most 180 and leads from the current to the target modulo 360.
DeltaIsShortest ==
    d_pc = "done" => /\ Abs(d_diff) <= Half
                     /\ Wrap(d_current + d_diff) = Wrap(d_target)

\* C10, the case met: a pair more than 180 apart, whose raw difference the
\* correction has changed
DeltaCorrected ==
    /\ d_pc = "done"
    /\ Abs(d_target - d_current) > Half
    /\ d_diff # d_target - d_current

\* C11: when the current and the target azimuth are exactly 180 degrees
\* apart, the delta computed is positive (the axis is driven in the
\* increasing-azimuth direction), whichever of the two is the larger.
TieGoesPositive ==
    (d_pc = "done" /\ Abs(d_target - d_current) = Half) => d_diff > 0

\* Distance between two azimuths around the circle
CircDist(a, b) == Min(Wrap(a - b), Wrap(b - a))

\* C12: every azimuth tick that moves the axis moves it along the shorter
\* arc toward the target the tick has read: the distance around the circle
\* to that target shrinks by the step (or, within one step of the target,
\* becomes the overshoot), so a move from 350 to 10 degrees crosses the
\* 360/0 wrap and does not go round through 180.
TickTakesShortArc ==
    [][/\ (AzStep /\ az_current' # az_current) =>
            CircDist(az_current', az_ltgt)
              = Abs(CircDist(az_current, az_ltgt) - az_speed)
       /\ AzT5Move =>
            CircDist(az_current', az_target)
              = Abs(CircDist(az_current, az_target) - az_speed)]_vars

\* C12, the case met: on the way to 10 degrees the axis has just stepped
\* forward across the wrap onto 0
WrapCrossed ==
    /\ az_target = 1000
    /\ az_motor = "fwd"
    /\ az_current = 0

\* C13: stop() is idempotent: called again after an earlier stop() has
\* returned and the thread has finished, it leaves the current angle, the
\* target, the actuator output and the running flag as they were.
StopIdempotent ==
    [][(AltStop /\ ~alt_running /\ alt_pc = "exited") =>
          /\ alt_current' = alt_current
          /\ alt_target' = alt_target
          /\ alt_motor' = alt_motor
          /\ alt_running' = alt_running]_vars

\* C14: while Sun tracking is active, every position the tracking loop
\* computes is re-issued to both axes: once the tick's position has been
\* handled, the altitude target and the azimuth target are that position
\* (clamped to 0..90 and wrapped modulo 360).
TrackingReissues ==
    [][(DeliverPosition /\ auto_track /\ filter_checked) =>
          /\ alt_target' = Clamp(Head(sun_queue)[1], AltMin, AltMax)
          /\ az_target' = Wrap(Head(sun_queue)[2])]_vars

\* C15: turning Sun tracking off stops both axes and clears the tracked
\* target: in the state that follows, neither axis has a target other than
\* the position it stands at, so none goes on driving toward the last
\* tracked position.
TrackingOffStopsAxes ==
    [][(auto_track /\ ~auto_track') =>
          /\ alt_target' = alt_current'
          /\ az_target' = az_current']_vars

\* A step in which a Sun command is answered with the safety warning
SunRejected ==
    /\ sun_warned'
    /\ \/ ToggleAutoTrack
       \/ TrackSun
       \/ ToggleTracking
       \/ DeliverPosition
       \/ SlewToSunClick

ErrorsNotFatal ==
    [][/\ (AltStart /\ alt_motor = "none") => alt_pc' = "top"
       /\ AltStepFail => /\ alt_pc' = "top"
                         /\ alt_current' # alt_current]_vars

\* C18: with more failed drive attempts in a row than a threshold (here
\* any threshold below MaxErrs) the axis is in Fault and makes no further
\* drive attempt.
FaultSuppressesDrive ==
    [][alt_errs = MaxErrs => ~(AltStep /\ alt_motor' \in {"fwd", "bwd"})]_vars

\* C19: a Sun position calculation that fails hands on the position
\* computed before, so the axes are never sent to a position that was not
\* computed: when the result of a failed calculation is delivered, the
\* targets of both axes stay where the last computed position put them.
FailedCalcKeepsTargets ==
    [][(DeliverPosition /\ Head(sun_queue) = SunCalcError) =>
          UNCHANGED <<alt_target, az_target>>]_vars

\* C20: a location outside latitude [-90, 90] or longitude [-180, 180] is
\* turned away and the stored observer kept: whenever the stored latitude
\* or longitude changes, the new pair is within both ranges.
InvalidLocationRejected ==
    [][(obs_lat' # obs_lat \/ obs_lon' # obs_lon) =>
          ValidLocation(obs_lat', obs_lon')]_vars

\* C21: handing a LogEvent to the sink never waits on the sink's own work:
\* no call of set_operation is ever held up at the sink's lock, whether the
\* sink is writing, failing, idle or stopped
HandoverNeverWaits == gui # "wait_lock"

\* C25: the observer is updated atomically: whenever the Sun thread's
\* calculation has taken both coordinates, the pair it holds is a location
\* that was stored while it ran, never the latitude of one location with
\* the longitude of another
ObserverReadWhole ==
    [][(sun_pc = "lon" /\ sun_pc' = "top") =>
         <<calc_lat', calc_lon'>> \in calc_seen']_vars

\* A step that starts a slew: a Sun position that passes the interlock, or
\* a Moon position, reaches the main window's slew handler
SlewStarts ==
    \/ filter_checked /\ (DeliverPosition \/ SlewToSunClick)
    \/ DeliverMoon
    \/ MoonSlewClick

\* A step that starts or stops the Sun or the Moon tracking
TrackingSwitches == auto_track' # auto_track \/ moon_track' # moon_track

\* A step that hands one event to the sink, with the angles the axes are at
\* and a reason
HandsCurrentAngles ==
    /\ Len(db_queue') = Len(db_queue) + 1
    /\ db_queue'[Len(db_queue')][1] = alt_current
    /\ db_queue'[Len(db_queue')][2] = az_current
    /\ db_queue'[Len(db_queue')][5] # ""

\* C22: every slew start and every tracking start or stop, the stop forced
\* by revoking the safety confirmation included, hands a LogEvent to the
\* sink that carries the axes' current angles and a reason
StartsAndStopsLogged ==
    [][(db_count < MaxEvents /\ (SlewStarts \/ TrackingSwitches))
         => HandsCurrentAngles]_vars

\* C26: the Sun and the Moon auto-tracking are never both active
OneTrackerAtATime == ~(auto_track /\ moon_track)

\* C27: once the Moon auto-tracking is off, its loop issues no further
\* target: a position of the Moon thread reaches the slew handler only
\* while the Moon auto-tracking is on
MoonOffIsFinal ==
    [][(moon_queue # <<>> /\ moon_queue' = Tail(moon_queue))
         => moon_track]_vars

\* C28: an emergency stop does not disable the axis for good: with the axis
\* stopped (running off), a target set to a different angle makes it move
\* again, and it eventually arrives within the tolerance
StopIsNotFinal == (~alt_running /\ ~AltNear) ~> AltNear

\* C23: an axis's target is changed only by an explicit set_target or stop:
\* the handling of a position update that the axis loop emitted leaves the
\* target as it is
PositionUpdateKeepsTarget ==
    [][(alt_emit # <<>> /\ alt_emit' = <<>>) => alt_target' = alt_target]_vars

\* The events the sink holds, in the order it accepted them: written, being
\* written, queued
Kept == db_log \o db_cur \o db_queue

\* A step in which the write of an event raises; the event is given up
WriteFails ==
    /\ db_pc = "write"
    /\ db_pc' = "top"
    /\ Kept' = db_log \o db_queue

\* C29: every LogEvent accepted by set_operation is written exactly once,
\* in the order of the enqueues: but for an event whose write raises, no
\* step drops or reorders an event the sink holds, and once the writer has
\* ended, after stop(), every event it held is written
AcceptedEventsWritten ==
    [][/\ \/ Kept' = Kept
          \/ /\ Len(Kept') = Len(Kept) + 1
             /\ SubSeq(Kept', 1, Len(Kept)) = Kept
          \/ WriteFails
       /\ db_pc' = "exited" => db_log' = Kept']_vars

\* C24: no operation blocks its caller, and no thread waits on a mutex it
\* already holds: the GUI thread is never inside the azimuth thread's
\* stop(), waiting for the mutex that stop() itself has taken
NoWaitOnOwnMutex == ~(gui = "az_stop" /\ az_mutex = "gui")

WaxingNames == {"Waxing Crescent", "First Quarter", "Waxing Gibbous"}

WaningNames == {"Waning Gibbous", "Last Quarter", "Waning Crescent"}

\* C30: the phase name tells waxing from waning by the direction of the
\* cycle: an illumination of at least 98 percent is named Full Moon, and
\* below that a waxing Moon is never given a waning name nor a waning Moon
\* a waxing one
PhaseNameTellsDirection ==
    ph_pc = "done" =>
      IF ph_illum >= 98
        THEN ph_name = "Full Moon"
        ELSE /\ ph_waxing => ph_name \notin WaningNames
             /\ ~ph_waxing => ph_name \notin WaxingNames

====
